---------------------------- MODULE Spec2Model ----------------------------
(***************************************************************************)
(* Surface-based voxel selection (mvpa2/misc/surfing/                      *)
(* surf_voxel_selection.py): VoxelSelector, _RadiusOptimizer,              *)
(* voxel_selection and _reduce_mapper.                                     *)
(*                                                                         *)
(* Floating-point numbers.  A non-negative float is written                *)
(* [m |-> mantissa, e |-> exponent] and stands for m * 1.5^e thousandths   *)
(* of a unit, either Zero or normalised with MantMin <= m < MantMax        *)
(* (MantMax = 1.5 * MantMin), so that numeric order is the order on        *)
(* (e, m), equality is equality of records, and the optimizer's            *)
(* multiplication by 1.5 is exact after any number of growth steps.        *)
(* Double precision keeps every mantissa; single precision (np.float32)    *)
(* keeps the multiples of F32Grain.                                        *)
(***************************************************************************)
EXTENDS Integers, Sequences, FiniteSets, TLC

(***************************************************************************)
(* Bounds of the model.                                                    *)
(***************************************************************************)
MaxLen == 6       \* voxels handed to a stand-alone _select_approx
MaxDist == 3      \* distinct distances among them
MaxNode == 1      \* nodes of the intermediate surface are 0..MaxNode
MaxVox == 4       \* voxels enclosed by one node
MaxCount == 2     \* largest searchlight size given as a voxel count
MaxProc == 3      \* largest number of workers
MaxSrc == 3       \* nodes of the source surface are 0..MaxSrc
MaxCalls == 5     \* calls of get_next, and of set_final, on a stand-alone optimizer

(***************************************************************************)
(* Float representation.                                                   *)
(***************************************************************************)
MantMin == 1000
MantMax == 1500
F32Grain == 4

Zero == [m |-> 0, e |-> 0]

Flt(m, e) == [m |-> m, e |-> e]

\* x <= y on floats
FLe(x, y) ==
    \/ x.m = 0
    \/ /\ y.m # 0
       /\ \/ x.e < y.e
          \/ x.e = y.e /\ x.m <= y.m

FLt(x, y) == FLe(x, y) /\ x # y

\* np.float32 of a double: the mantissa rounded to the nearest multiple of
\* F32Grain, ties to the even multiple; a mantissa rounded up to MantMax
\* carries into the exponent.
Float32(x) ==
    IF x.m = 0 THEN x
    ELSE LET lo == (x.m \div F32Grain) * F32Grain
             rem == x.m - lo
             up == \/ 2 * rem > F32Grain
                   \/ 2 * rem = F32Grain /\ (lo \div F32Grain) % 2 = 1
             r == IF up THEN lo + F32Grain ELSE lo
         IN IF r >= MantMax THEN Flt(MantMin, x.e + 1) ELSE Flt(r, x.e)

(***************************************************************************)
(* Optional values.                                                        *)
(***************************************************************************)
NoCount == -1          \* count=None
NoProc == -1           \* nproc=None

\* the value None where a dict of voxel attributes is expected
NoneAttrs ==
    [kind |-> "None", linear_voxel_indices |-> << >>,
     center_distances |-> << >>, grey_matter_position |-> << >>]

\* the empty list [] returned for a skipped node
EmptyList ==
    [kind |-> "list", linear_voxel_indices |-> << >>,
     center_distances |-> << >>, grey_matter_position |-> << >>]

\* a dict with the three keys LINEAR_VOXEL_INDICES, CENTER_DISTANCES and
\* GREY_MATTER_POSITION
Attrs(ids, ds, ps) ==
    [kind |-> "dict", linear_voxel_indices |-> ids,
     center_distances |-> ds, grey_matter_position |-> ps]

(***************************************************************************)
(* VoxelSelector._select_approx                                            *)
(***************************************************************************)
\* the for loop over i in xrange(n); i is the 0-based index, st holds
\* curchunk, prevd and chunkcount
RECURSIVE ScanChunks(_, _, _, _)
ScanChunks(allds, count, i, st) ==
    IF i >= Len(allds) THEN st
    ELSE LET d == allds[i + 1]
         IN IF i > 0 /\ st.prevd # d
            THEN IF i >= count
                 THEN st
                 ELSE ScanChunks(allds, count, i + 1,
                        [curchunk |-> << i >>, prevd |-> d,
                         chunkcount |-> st.chunkcount + 1])
            ELSE ScanChunks(allds, count, i + 1,
                   [curchunk |-> Append(st.curchunk, i), prevd |-> d,
                    chunkcount |-> st.chunkcount])

\* curchunk and chunkcount after the loop
Chunk(allds, count) ==
    ScanChunks(allds, count, 0,
               [curchunk |-> << >>, prevd |-> allds[1], chunkcount |-> 1])

\* a cut that takes count voxels whatever the chunks are
CutPosAtCount(allds, count) == count

\* the cut with the choice at a tie the other way round
CutPosOddFirst(allds, count) ==
    LET st == Chunk(allds, count)
        firstpos == st.curchunk[1]
        lastpos == st.curchunk[Len(st.curchunk)]
        delta == (count - firstpos) - (lastpos - count)
    IN IF delta > 0 THEN lastpos + 1
       ELSE IF delta < 0 THEN firstpos
       ELSE IF st.chunkcount % 2 = 0 THEN lastpos + 1 ELSE firstpos

\* the cut with the choice at a tie made by the parity of n
CutPosByLength(allds, count) ==
    LET st == Chunk(allds, count)
        firstpos == st.curchunk[1]
        lastpos == st.curchunk[Len(st.curchunk)]
        delta == (count - firstpos) - (lastpos - count)
    IN IF delta > 0 THEN lastpos + 1
       ELSE IF delta < 0 THEN firstpos
       ELSE IF Len(allds) % 2 = 0 THEN firstpos ELSE lastpos + 1

\* the cut with every tie going to lastpos + 1
CutPosTieLast(allds, count) ==
    LET st == Chunk(allds, count)
        firstpos == st.curchunk[1]
        lastpos == st.curchunk[Len(st.curchunk)]
        delta == (count - firstpos) - (lastpos - count)
    IN IF delta >= 0 THEN lastpos + 1 ELSE firstpos

\* cutpos, from firstpos, lastpos, delta and the parity of chunkcount
CutPos(allds, count) ==
    LET st == Chunk(allds, count)
        firstpos == st.curchunk[1]
        lastpos == st.curchunk[Len(st.curchunk)]
        delta == (count - firstpos) - (lastpos - count)
    IN IF delta > 0 THEN lastpos + 1
       ELSE IF delta < 0 THEN firstpos
       ELSE IF st.chunkcount % 2 = 0 THEN firstpos ELSE lastpos + 1

\* _select_approx with an input of exactly count voxels taken as too small
_select_approx_strict(voxprops, count) ==
    IF count = NoCount THEN voxprops
    ELSE LET allds == voxprops.center_distances
             n == Len(allds)
         IN IF n <= count \/ n = 0 THEN NoneAttrs
            ELSE LET cutpos == CutPos(allds, count)
                 IN Attrs(SubSeq(voxprops.linear_voxel_indices, 1, cutpos),
                          SubSeq(voxprops.center_distances, 1, cutpos),
                          SubSeq(voxprops.grey_matter_position, 1, cutpos))

_select_approx(voxprops, count) ==
    IF count = NoCount THEN voxprops
    ELSE LET allds == voxprops.center_distances
             n == Len(allds)
         IN IF n < count \/ n = 0 THEN NoneAttrs
            ELSE LET cutpos == CutPos(allds, count)
                 IN Attrs(SubSeq(voxprops.linear_voxel_indices, 1, cutpos),
                          SubSeq(voxprops.center_distances, 1, cutpos),
                          SubSeq(voxprops.grey_matter_position, 1, cutpos))

(***************************************************************************)
(* The run's inputs and the state of voxel_selection, of each worker's     *)
(* _reduce_mapper and VoxelSelector, and of a stand-alone _select_approx.  *)
(***************************************************************************)
VARIABLES
    radius,                 \* searchlight size: [kind, n, f]
    n2v,                    \* node -> enclosing voxels (vol_surf.node2voxels)
    surf,                   \* intermediate surface: node pair -> distance
    outside_node_margin,    \* [kind, val]
    source_surf_nodes,      \* center nodes on the source surface
    visitorder,             \* np.random.permutation(len(source_surf_nodes))
    src2intermediate,       \* source node -> intermediate node
    nproc,                  \* number of workers; NoProc: nproc=None
    pprocess,               \* the module pprocess can be imported
    mainpc,                 \* position of voxel_selection
    node2volume_attributes, \* the result of voxel_selection
    nmerged,                \* result blocks merged so far
    error,                  \* exception raised by voxel_selection
    warned,                 \* warning('No voxels associated ...') was issued
    warned_nproc,           \* warning("Could not import pprocess, ...")
    wpc,                    \* per worker: position of _reduce_mapper
    block,                  \* per worker: src_trg_indices
    pos,                    \* per worker: i of enumerate(src_trg_indices)
    optimizer,              \* per worker: _RadiusOptimizer state
    iter,                   \* per worker: loop variable of the growth loop
    radius_mm,              \* per worker: trial radius
    voxel_attributes,       \* per worker: outcome of the last trial
    result,                 \* per worker: its node2volume_attributes
    raised,                 \* per worker: exception raised
    qvoxprops, qcount, qsel, qcount2, qsel2, qpc,  \* _select_approx alone
    agg_n2d                 \* nodes2voxel_attributes alone: node -> distance

cfgvars == << radius, n2v, surf, outside_node_margin, source_surf_nodes,
              visitorder, src2intermediate, nproc, pprocess >>
mainvars == << mainpc, node2volume_attributes, nmerged, error, warned,
               warned_nproc >>
wvars == << wpc, block, pos, optimizer, iter, radius_mm, voxel_attributes,
            result, raised >>
qvars == << qvoxprops, qcount, qsel, qcount2, qsel2, qpc, agg_n2d >>
vars == << cfgvars, mainvars, wvars, qvars >>

Nodes == 0..MaxNode
Voxels == 1..(MaxNode + MaxVox)
Workers == 1..MaxProc

(***************************************************************************)
(* VoxelSelector.__init__ and _RadiusOptimizer                             *)
(***************************************************************************)
maxiter == 100

\* the largest s in lo..hi with s * s <= x
RECURSIVE SqrtBetween(_, _, _)
SqrtBetween(x, lo, hi) ==
    IF lo = hi THEN lo
    ELSE LET mid == (lo + hi + 1) \div 2
         IN IF mid * mid <= x THEN SqrtBetween(x, mid, hi)
            ELSE SqrtBetween(x, lo, mid - 1)

\* the exponent of a number of x thousandths
RECURSIVE ExpOf(_, _)
ExpOf(x, e) == IF x * 2^e < MantMax * 3^e THEN e ELSE ExpOf(x, e + 1)

\* the float nearest to x thousandths, x >= MantMin
ToFloat(x) ==
    LET e == ExpOf(x, 0)
        m == (2 * x * 2^e + 3^e) \div (2 * 3^e)
    IN IF m >= MantMax THEN Flt(MantMin, e + 1) ELSE Flt(m, e)

\* initradius_mm = .001 + 1.5 * float(radius) ** .5, in thousandths
InitRadiusInt(n) == ToFloat(1 + SqrtBetween(1500 * 1500 * n, 0, 1500 * n))

\* a selector that takes every radius as a target count
_fixedradius_never == FALSE

\* self._fixedradius
_fixedradius == radius.kind = "float"

\* self._initradius_mm
_initradius_mm == IF radius.kind = "int" THEN InitRadiusInt(radius.n)
                  ELSE radius.f

\* _RadiusOptimizer(initradius_mm): _curradius and _count exist only once
\* get_start was called
_RadiusOptimizer(initradius) ==
    [_initradius |-> initradius, started |-> FALSE,
     _curradius |-> Zero, _count |-> 0]

get_start(o) ==
    [o EXCEPT !.started = TRUE, !._curradius = o._initradius, !._count = 0]

\* self._curradius *= self._initmult, with _initmult = 1.5
get_next(o) ==
    [o EXCEPT !._count = @ + 1,
              !._curradius = IF @.m = 0 THEN @ ELSE Flt(@.m, @.e + 1)]

\* set_final keeping the final radius as the radius to start from
set_final_learn(o, finalradius) == [o EXCEPT !._initradius = finalradius]

set_final(o, finalradius) == o

(***************************************************************************)
(* The surface as distance oracle (mvpa2.support.nibabel.surf)             *)
(***************************************************************************)
\* surf[<<a, b>>] = [conn |-> a path joins a and b, d |-> its length]
circlearound_n2d(src, r) ==
    LET near == {nd \in Nodes : surf[<<src, nd>>].conn
                                /\ FLe(surf[<<src, nd>>].d, r)}
    IN [nd \in near |-> surf[<<src, nd>>].d]

dijkstra_distance(src, maxdistance) == circlearound_n2d(src, maxdistance)

(***************************************************************************)
(* VoxelSelector.nodes2voxel_attributes                                    *)
(***************************************************************************)
\* (d1, p1) <= (d2, p2) as Python orders tuples
PairLe(a, b) == FLt(a[1], b[1]) \/ (a[1] = b[1] /\ FLe(a[2], b[2]))

\* distancesummary=max
MaxPair(dps) == CHOOSE a \in dps : \A b \in dps : PairLe(b, a)

\* distancesummary=min over a set of (distance, position) tuples
MinPair(dps) == CHOOSE a \in dps : \A b \in dps : PairLe(a, b)

\* v2dps of the voxels of the nearest node only
V2dpsNearest(n2d, tbl) ==
    LET nds == {nd \in DOMAIN n2d :
                  /\ tbl[nd].kind = "dict"
                  /\ \A x \in DOMAIN n2d : FLe(n2d[nd], n2d[x])}
        vxs == UNION {DOMAIN tbl[nd].vps : nd \in nds}
    IN [vx \in vxs |-> {<< n2d[nd], tbl[nd].vps[vx] >> :
                          nd \in {x \in nds : vx \in DOMAIN tbl[x].vps}}]

\* v2dps: voxel -> all (distance, position) of the nodes in n2d enclosing it
V2dps(n2d, tbl) ==
    LET nds == {nd \in DOMAIN n2d : tbl[nd].kind = "dict"}
        vxs == UNION {DOMAIN tbl[nd].vps : nd \in nds}
    IN [vx \in vxs |-> {<< n2d[nd], tbl[nd].vps[vx] >> :
                          nd \in {x \in nds : vx \in DOMAIN tbl[x].vps}}]

\* the keys of a dict of small ints in iteration order: ascending
RECURSIVE DictOrder(_)
DictOrder(S) ==
    IF S = {} THEN << >>
    ELSE LET v == CHOOSE x \in S : \A y \in S : x <= y
         IN << v >> \o DictOrder(S \ {v})

\* one step of the stable sort by distance: t goes after every triple whose
\* distance is not larger
RECURSIVE InsertByDist(_, _)
InsertByDist(sorted, t) ==
    IF sorted = << >> THEN << t >>
    ELSE IF FLe(sorted[1][2], t[2])
         THEN << sorted[1] >> \o InsertByDist(Tail(sorted), t)
         ELSE << t >> \o sorted

\* the triples left in the order of the keys of v2dps
SortByKey(vdp) == vdp

RECURSIVE SortByDist(_)
SortByDist(vdp) ==
    IF vdp = << >> THEN << >>
    ELSE InsertByDist(SortByDist(SubSeq(vdp, 1, Len(vdp) - 1)), vdp[Len(vdp)])

\* np.int32 of a voxel index (indices of the model are within int32)
Int32(v) == v

nodes2voxel_attributes(n2d, tbl) ==
    LET v2dps == V2dps(n2d, tbl)
        keys == DictOrder(DOMAIN v2dps)
        vdp == SortByDist([i \in 1..Len(keys) |->
                  << keys[i], MinPair(v2dps[keys[i]])[1],
                     MinPair(v2dps[keys[i]])[2] >>])
    IN Attrs([i \in 1..Len(vdp) |-> Int32(vdp[i][1])],
             [i \in 1..Len(vdp) |-> Float32(vdp[i][2])],
             [i \in 1..Len(vdp) |-> Float32(vdp[i][3])])

(***************************************************************************)
(* VoxelSelector.disc_voxel_attributes                                     *)
(***************************************************************************)
node_in_vol(nd) == n2v[nd].kind = "dict"

\* skip with the margin as a strict bound
SkipStrict(src) ==
    /\ ~node_in_vol(src)
    /\ outside_node_margin.kind # "True"
    /\ CASE outside_node_margin.kind = "None" -> TRUE
         [] outside_node_margin.kind = "inf" ->
                ~\E nd \in Nodes : n2v[nd].kind # "absent" /\ node_in_vol(nd)
         [] outside_node_margin.kind = "float" ->
                LET node_distances ==
                        dijkstra_distance(src, outside_node_margin.val)
                IN ~\E nd \in DOMAIN node_distances :
                       /\ n2v[nd].kind = "dict"
                       /\ FLt(node_distances[nd], outside_node_margin.val)

\* skip: the node is outside the volume and the margin does not admit it
Skip(src) ==
    /\ ~node_in_vol(src)
    /\ outside_node_margin.kind # "True"
    /\ CASE outside_node_margin.kind = "None" -> TRUE
         [] outside_node_margin.kind = "inf" ->
                ~\E nd \in Nodes : n2v[nd].kind # "absent" /\ node_in_vol(nd)
         [] outside_node_margin.kind = "float" ->
                LET node_distances ==
                        dijkstra_distance(src, outside_node_margin.val)
                IN ~\E nd \in DOMAIN node_distances :
                       /\ n2v[nd].kind = "dict"
                       /\ FLe(node_distances[nd], outside_node_margin.val)

\* one pass of the body of the growth loop, up to the call of _select_approx
TrialAttrs(src, r) ==
    LET around_n2d == circlearound_n2d(src, r)
        allvxdist == nodes2voxel_attributes(around_n2d, n2v)
    IN IF _fixedradius THEN _select_approx(allvxdist, NoCount)
       ELSE _select_approx(allvxdist, radius.n)

\* the workers all on the one optimizer of the parent
InstanceShared(w) == 1

\* the optimizer a worker works on: pprocess runs each call of
\* _reduce_mapper in a forked process, which has a copy of the selector and
\* of its optimizer for itself
Instance(w) == w

\* the center the worker is at: (src, trg)
Center(w) == block[w][pos[w] + 1]

\* optimizer.get_start() called ahead of the outside-volume check
CheckEligibilityStarted(w) ==
    /\ wpc[w] = "reduce"
    /\ pos[w] < Len(block[w])
    /\ optimizer' = [optimizer EXCEPT ![Instance(w)] = get_start(@)]
    /\ radius_mm' = [radius_mm EXCEPT
            ![w] = get_start(optimizer[Instance(w)])._curradius]
    /\ IF Skip(Center(w)[2])
       THEN /\ pos' = [pos EXCEPT ![w] = @ + 1]
            /\ UNCHANGED << wpc, iter >>
       ELSE /\ iter' = [iter EXCEPT ![w] = 0]
            /\ wpc' = [wpc EXCEPT ![w] = "growth"]
            /\ pos' = pos
    /\ UNCHANGED << block, voxel_attributes, result, raised >>
    /\ UNCHANGED << cfgvars, mainvars, qvars >>

\* lines 216-249: the outside-volume check, then optimizer.get_start()
CheckEligibility(w) ==
    /\ wpc[w] = "reduce"
    /\ pos[w] < Len(block[w])
    /\ IF Skip(Center(w)[2])
       THEN /\ pos' = [pos EXCEPT ![w] = @ + 1]
            /\ UNCHANGED << wpc, optimizer, iter, radius_mm >>
       ELSE /\ optimizer' = [optimizer EXCEPT ![Instance(w)] = get_start(@)]
            /\ radius_mm' = [radius_mm EXCEPT
                    ![w] = get_start(optimizer[Instance(w)])._curradius]
            /\ iter' = [iter EXCEPT ![w] = 0]
            /\ wpc' = [wpc EXCEPT ![w] = "growth"]
            /\ pos' = pos
    /\ UNCHANGED << block, voxel_attributes, result, raised >>
    /\ UNCHANGED << cfgvars, mainvars, qvars >>

\* a trial of a loop without the cap of maxiter passes
TrialNoCap(w) ==
    /\ wpc[w] = "growth"
    /\ LET va == TrialAttrs(Center(w)[2], radius_mm[w])
       IN /\ voxel_attributes' = [voxel_attributes EXCEPT ![w] = va]
          /\ IF va.kind = "None"
             THEN /\ optimizer' = [optimizer EXCEPT
                                     ![Instance(w)] = get_next(@)]
                  /\ radius_mm' = [radius_mm EXCEPT
                        ![w] = get_next(optimizer[Instance(w)])._curradius]
                  /\ iter' = [iter EXCEPT ![w] = @ + 1]
                  /\ wpc' = wpc
             ELSE /\ wpc' = [wpc EXCEPT ![w] = "after"]
                  /\ UNCHANGED << optimizer, radius_mm, iter >>
    /\ UNCHANGED << block, pos, result, raised >>
    /\ UNCHANGED << cfgvars, mainvars, qvars >>

\* lines 253-274: one trial of the growth loop
Trial(w) ==
    /\ wpc[w] = "growth"
    /\ LET va == TrialAttrs(Center(w)[2], radius_mm[w])
       IN /\ voxel_attributes' = [voxel_attributes EXCEPT ![w] = va]
          /\ IF va.kind = "None"
             THEN /\ optimizer' = [optimizer EXCEPT
                                     ![Instance(w)] = get_next(@)]
                  /\ radius_mm' = [radius_mm EXCEPT
                        ![w] = get_next(optimizer[Instance(w)])._curradius]
                  /\ IF iter[w] + 1 < maxiter
                     THEN iter' = [iter EXCEPT ![w] = @ + 1] /\ wpc' = wpc
                     ELSE iter' = iter /\ wpc' = [wpc EXCEPT ![w] = "after"]
             ELSE /\ wpc' = [wpc EXCEPT ![w] = "after"]
                  /\ UNCHANGED << optimizer, radius_mm, iter >>
    /\ UNCHANGED << block, pos, result, raised >>
    /\ UNCHANGED << cfgvars, mainvars, qvars >>

\* add(int(src), idxs, misc_attrs) of the result structure
add(d, src, attrs) ==
    (src :> [linear_voxel_indices |-> attrs.linear_voxel_indices,
             center_distances |-> attrs.center_distances,
             grey_matter_position |-> attrs.grey_matter_position]) @@ d

\* the test of the cap off by one: iter + 1 > maxiter
FinishErrorAbove(w) ==
    IF iter[w] + 1 > maxiter THEN "TypeError"
    ELSE IF voxel_attributes[w].kind = "dict"
            /\ Len(voxel_attributes[w].center_distances) = 0
         THEN "IndexError"
         ELSE "none"

\* the exception of lines 276-283, "none" when the lines raise nothing:
\* the message of line 277 is a str that is called, and [-1] of an empty
\* array is out of bounds
FinishError(w) ==
    IF iter[w] + 1 >= maxiter THEN "TypeError"
    ELSE IF voxel_attributes[w].kind = "dict"
            /\ Len(voxel_attributes[w].center_distances) = 0
         THEN "IndexError"
         ELSE "none"

\* lines 276-285, disc_voxel_indices_and_attributes and lines 610-611
Finish(w) ==
    /\ wpc[w] = "after"
    /\ IF FinishError(w) # "none"
       THEN /\ raised' = [raised EXCEPT ![w] = FinishError(w)]
            /\ wpc' = [wpc EXCEPT ![w] = "raised"]
            /\ UNCHANGED << optimizer, result, pos >>
       ELSE /\ optimizer' = [optimizer EXCEPT ![Instance(w)] =
                     set_final(@, voxel_attributes[w].center_distances[
                                   Len(voxel_attributes[w].center_distances)])]
            /\ result' = [result EXCEPT ![w] =
                     add(@, Center(w)[1], voxel_attributes[w])]
            /\ pos' = [pos EXCEPT ![w] = @ + 1]
            /\ wpc' = [wpc EXCEPT ![w] = "reduce"]
            /\ raised' = raised
    /\ UNCHANGED << block, iter, radius_mm, voxel_attributes >>
    /\ UNCHANGED << cfgvars, mainvars, qvars >>

\* line 621: return node2volume_attributes
ReduceReturn(w) ==
    /\ wpc[w] = "reduce"
    /\ pos[w] = Len(block[w])
    /\ wpc' = [wpc EXCEPT ![w] = "returned"]
    /\ UNCHANGED << block, pos, optimizer, iter, radius_mm, voxel_attributes,
                    result, raised >>
    /\ UNCHANGED << cfgvars, mainvars, qvars >>

(***************************************************************************)
(* voxel_selection                                                         *)
(***************************************************************************)
\* srcs_order and src_trg_nodes (lines 508-509); visitorder holds 0-based
\* positions of source_surf_nodes
\* the pairs with the node of the intermediate surface in the place of the
\* source node
trg_trg_nodes ==
    [i \in 1..Len(visitorder) |->
        << src2intermediate[source_surf_nodes[visitorder[i] + 1]],
           src2intermediate[source_surf_nodes[visitorder[i] + 1]] >>]

src_trg_nodes ==
    [i \in 1..Len(visitorder) |->
        << source_surf_nodes[visitorder[i] + 1],
           src2intermediate[source_surf_nodes[visitorder[i] + 1]] >>]

Min(a, b) == IF a <= b THEN a ELSE b

\* blocks of n / P positions each, the remainder left out
array_split_floor(n, P, i) ==
    [k \in 1..(n \div P) |-> i * (n \div P) + k - 1]

\* np.array_split(np.arange(n), P)[i]: the first n % P blocks hold
\* n / P + 1 positions, the others n / P
array_split(n, P, i) ==
    LET size == (n \div P) + (IF i < n % P THEN 1 ELSE 0)
        start == i * (n \div P) + Min(i, n % P)
    IN [k \in 1..size |-> start + k - 1]

\* src_trg of block i (lines 535-537)
BlockSrcTrg(i) ==
    LET blk == array_split(Len(src_trg_nodes), nproc, i)
    IN [k \in 1..Len(blk) |-> src_trg_nodes[blk[k] + 1]]

NoResult == [kind |-> "None", d |-> << >>]
Result(d) == [kind |-> "dict", d |-> d]

\* merge of the result structure: the union of two mappings
merge(a, b) == a @@ b

\* the loop over the results assigning each result
MergedAssign(acc, i, res) == Result(res)

\* the body of the loop over the results (lines 550-553)
Merged(acc, i, res) ==
    IF i = 0 THEN Result(res) ELSE Result(merge(acc.d, res))

\* the constructor taking a searchlight size of any type
ConstructAny ==
    /\ mainpc = "init"
    /\ optimizer' = [w \in Workers |-> _RadiusOptimizer(_initradius_mm)]
    /\ mainpc' = "constructed"
    /\ UNCHANGED << node2volume_attributes, nmerged, error, warned, warned_nproc >>
    /\ UNCHANGED << wpc, block, pos, iter, radius_mm, voxel_attributes,
                    result, raised >>
    /\ UNCHANGED << cfgvars, qvars >>

\* line 491: VoxelSelector(radius, ...)
Construct ==
    /\ mainpc = "init"
    /\ IF radius.kind \in {"int", "float"}
       THEN /\ optimizer' = [w \in Workers |-> _RadiusOptimizer(_initradius_mm)]
            /\ mainpc' = "constructed"
            /\ error' = error
       ELSE /\ mainpc' = "raised"
            /\ error' = "TypeError"
            /\ optimizer' = optimizer
    /\ UNCHANGED << node2volume_attributes, nmerged, warned, warned_nproc >>
    /\ UNCHANGED << wpc, block, pos, iter, radius_mm, voxel_attributes,
                    result, raised >>
    /\ UNCHANGED << cfgvars, qvars >>

\* lines 512-520: nproc=None becomes the number of cores that pprocess
\* reports (or 1), and 1 with a warning when pprocess cannot be imported
ResolveNproc ==
    /\ mainpc = "constructed"
    /\ mainpc' = "resolved"
    /\ IF nproc = NoProc
       THEN IF pprocess
            THEN nproc' \in 1..MaxProc /\ warned_nproc' = warned_nproc
            ELSE nproc' = 1 /\ warned_nproc' = TRUE
       ELSE UNCHANGED << nproc, warned_nproc >>
    /\ UNCHANGED << node2volume_attributes, nmerged, error, warned >>
    /\ UNCHANGED << radius, n2v, surf, outside_node_margin, source_surf_nodes,
                    visitorder, src2intermediate, pprocess >>
    /\ UNCHANGED << wvars, qvars >>

\* line 523: import pprocess
ForkImportError ==
    /\ mainpc = "resolved"
    /\ nproc > 1
    /\ ~pprocess
    /\ mainpc' = "raised"
    /\ error' = "ImportError"
    /\ UNCHANGED << node2volume_attributes, nmerged, warned, warned_nproc >>
    /\ UNCHANGED << wvars, cfgvars, qvars >>

\* lines 522-544: one call of _reduce_mapper per block, each in a process
\* of its own
Fork ==
    /\ mainpc = "resolved"
    /\ nproc > 1
    /\ pprocess
    /\ mainpc' = "collect"
    /\ block' = [w \in Workers |->
                    IF w <= nproc THEN BlockSrcTrg(w - 1) ELSE << >>]
    /\ wpc' = [w \in Workers |-> IF w <= nproc THEN "reduce" ELSE "idle"]
    /\ UNCHANGED << node2volume_attributes, nmerged, error, warned, warned_nproc >>
    /\ UNCHANGED << pos, optimizer, iter, radius_mm, voxel_attributes,
                    result, raised >>
    /\ UNCHANGED << cfgvars, qvars >>

\* lines 549-553: the results come in the order of the calls
Merge ==
    /\ mainpc = "collect"
    /\ nmerged < nproc
    /\ wpc[nmerged + 1] = "returned"
    /\ node2volume_attributes' =
          Merged(node2volume_attributes, nmerged, result[nmerged + 1])
    /\ nmerged' = nmerged + 1
    /\ mainpc' = IF nmerged + 1 = nproc THEN "collected" ELSE "collect"
    /\ UNCHANGED << error, warned, warned_nproc >>
    /\ UNCHANGED << wvars, cfgvars, qvars >>

\* an exception of a worker ends the run
ForkRaise ==
    /\ mainpc = "collect"
    /\ nmerged < nproc
    /\ wpc[nmerged + 1] = "raised"
    /\ mainpc' = "raised"
    /\ error' = raised[nmerged + 1]
    /\ UNCHANGED << node2volume_attributes, nmerged, warned, warned_nproc >>
    /\ UNCHANGED << wvars, cfgvars, qvars >>

\* lines 560-567: _reduce_mapper called on all centers
CallReduceMapper ==
    /\ mainpc = "resolved"
    /\ ~(nproc > 1)
    /\ mainpc' = "call"
    /\ block' = [w \in Workers |-> IF w = 1 THEN src_trg_nodes ELSE << >>]
    /\ wpc' = [w \in Workers |-> IF w = 1 THEN "reduce" ELSE "idle"]
    /\ UNCHANGED << node2volume_attributes, nmerged, error, warned, warned_nproc >>
    /\ UNCHANGED << pos, optimizer, iter, radius_mm, voxel_attributes,
                    result, raised >>
    /\ UNCHANGED << cfgvars, qvars >>

\* line 564: node2volume_attributes = _reduce_mapper(...)
CallReturn ==
    /\ mainpc = "call"
    /\ wpc[1] = "returned"
    /\ node2volume_attributes' = Result(result[1])
    /\ mainpc' = "collected"
    /\ UNCHANGED << nmerged, error, warned, warned_nproc >>
    /\ UNCHANGED << wvars, cfgvars, qvars >>

\* an exception of _reduce_mapper leaves voxel_selection
CallRaise ==
    /\ mainpc = "call"
    /\ wpc[1] = "raised"
    /\ mainpc' = "raised"
    /\ error' = raised[1]
    /\ UNCHANGED << node2volume_attributes, nmerged, warned, warned_nproc >>
    /\ UNCHANGED << wvars, cfgvars, qvars >>

\* lines 591-594
Return ==
    /\ mainpc = "collected"
    /\ warned' = (node2volume_attributes.kind = "None")
    /\ mainpc' = "done"
    /\ UNCHANGED << node2volume_attributes, nmerged, error, warned_nproc >>
    /\ UNCHANGED << wvars, cfgvars, qvars >>

(***************************************************************************)
(* _select_approx on its own                                               *)
(***************************************************************************)
SelectApprox ==
    /\ qpc = "input"
    /\ qsel' = _select_approx(qvoxprops, qcount)
    /\ qpc' = "selected"
    /\ UNCHANGED << agg_n2d, qvoxprops, qcount, qcount2, qsel2 >>
    /\ UNCHANGED << cfgvars, mainvars, wvars >>

\* _select_approx on its own output, with another count
SelectAgain ==
    /\ qpc = "selected"
    /\ qsel.kind = "dict"
    /\ \E c \in (1..(MaxLen + 1)) \cup {NoCount} :
          /\ qcount2' = c
          /\ qsel2' = _select_approx(qsel, c)
    /\ qpc' = "reselected"
    /\ UNCHANGED << agg_n2d, qvoxprops, qcount, qsel >>
    /\ UNCHANGED << cfgvars, mainvars, wvars >>

(***************************************************************************)
(* nodes2voxel_attributes on its own                                       *)
(***************************************************************************)
Aggregate ==
    /\ qpc = "n2d"
    /\ qvoxprops' = nodes2voxel_attributes(agg_n2d, n2v)
    /\ qpc' = "aggregated"
    /\ UNCHANGED << agg_n2d, qcount, qsel, qcount2, qsel2 >>
    /\ UNCHANGED << cfgvars, mainvars, wvars >>

(***************************************************************************)
(* _RadiusOptimizer on its own: calls in any order; qpc is the last call,   *)
(* radius_mm[1] the last value returned, pos[1] the calls of get_next and   *)
(* iter[1] the calls of set_final made so far                               *)
(***************************************************************************)
OptStart ==
    /\ qpc \in {"new", "start", "next", "final"}
    /\ optimizer' = [optimizer EXCEPT ![1] = get_start(@)]
    /\ radius_mm' = [radius_mm EXCEPT ![1] = get_start(optimizer[1])._curradius]
    /\ qpc' = "start"
    /\ UNCHANGED << agg_n2d, qvoxprops, qcount, qsel, qcount2, qsel2 >>
    /\ UNCHANGED << wpc, block, pos, iter, voxel_attributes, result, raised >>
    /\ UNCHANGED << cfgvars, mainvars >>

\* _curradius exists once get_start was called
OptNext ==
    /\ qpc \in {"start", "next", "final"}
    /\ optimizer[1].started
    /\ pos[1] < MaxCalls
    /\ optimizer' = [optimizer EXCEPT ![1] = get_next(@)]
    /\ radius_mm' = [radius_mm EXCEPT ![1] = get_next(optimizer[1])._curradius]
    /\ pos' = [pos EXCEPT ![1] = @ + 1]
    /\ qpc' = "next"
    /\ UNCHANGED << agg_n2d, qvoxprops, qcount, qsel, qcount2, qsel2 >>
    /\ UNCHANGED << wpc, block, iter, voxel_attributes, result, raised >>
    /\ UNCHANGED << cfgvars, mainvars >>

OptFinal ==
    /\ qpc \in {"new", "start", "next", "final"}
    /\ iter[1] < MaxCalls
    /\ \E finalradius \in {Flt(1200, 0), Flt(1003, 3)} :
          optimizer' = [optimizer EXCEPT ![1] = set_final(@, finalradius)]
    /\ iter' = [iter EXCEPT ![1] = @ + 1]
    /\ qpc' = "final"
    /\ UNCHANGED << agg_n2d, qvoxprops, qcount, qsel, qcount2, qsel2 >>
    /\ UNCHANGED << wpc, block, pos, radius_mm, voxel_attributes,
                    result, raised >>
    /\ UNCHANGED << cfgvars, mainvars >>

(***************************************************************************)
(* Initial states                                                          *)
(***************************************************************************)
\* all sequences over S of length n in non-decreasing order
RECURSIVE SortedSeqs(_, _)
SortedSeqs(S, n) ==
    IF n = 0 THEN {<< >>}
    ELSE {Append(z[1], z[2]) :
            z \in {y \in SortedSeqs(S, n - 1) \X S :
                      n = 1 \/ y[1][n - 1] <= y[2]}}

\* the permutations of 0..n-1, as sequences
PermSeqs(n) ==
    {q \in [1..n -> 0..(n - 1)] : \A i, j \in 1..n : i # j => q[i] # q[j]}

Absent == [kind |-> "absent", vps |-> << >>]
NoneEntry == [kind |-> "None", vps |-> << >>]

\* relative grey matter positions
PosOf(nd, vx) == IF (nd + vx) % 2 = 0 THEN Flt(1127, 0) ELSE Flt(1000, 2)

\* node nd enclosing the k voxels nd+1 .. nd+k
Encloses(nd, k) ==
    [kind |-> "dict", vps |-> [vx \in (nd + 1)..(nd + k) |-> PosOf(nd, vx)]]

\* nodes 0 and 1 are not in the table, have the entry None, or enclose no
\* voxel, one voxel or MaxVox voxels; a further node is not in the table or
\* encloses one voxel
Entries(nd) ==
    IF nd <= 1
    THEN {Absent, NoneEntry} \cup {Encloses(nd, k) : k \in {0, 1, MaxVox}}
    ELSE {Absent, Encloses(nd, 1)}

Tables ==
    {t \in [Nodes -> UNION {Entries(nd) : nd \in Nodes}] :
        \A nd \in Nodes : t[nd] \in Entries(nd)}

\* lengths of the paths from node 0; NoPath: no path joins the node to
\* another node
Lengths == {Flt(1200, 0), Flt(1003, 1), Flt(1003, 3), Flt(1000, 100)}
NoPath == [conn |-> FALSE, d |-> Zero]
Path(d) == [conn |-> TRUE, d |-> d]

\* the surface on which node nd lies f[nd] from node 0, and two other
\* nodes lie as far from each other as the farther of them lies from node 0
SurfaceOf(f) ==
    [p \in Nodes \X Nodes |->
        IF p[1] = p[2] THEN Path(Zero)
        ELSE IF ~f[p[1]].conn \/ ~f[p[2]].conn THEN NoPath
        ELSE IF FLe(f[p[1]].d, f[p[2]].d) THEN f[p[2]] ELSE f[p[1]]]

\* node 1 lies at any of the lengths from node 0, a further node at the
\* second of them
PathsOf(nd, lengths) ==
    IF nd = 0 THEN {Path(Zero)}
    ELSE IF nd = 1 THEN {NoPath} \cup {Path(d) : d \in lengths}
    ELSE {NoPath, Path(Flt(1003, 1))}

Surfaces(lengths) ==
    {SurfaceOf(f) :
        f \in {g \in [Nodes -> {NoPath, Path(Zero)}
                                 \cup {Path(d) : d \in lengths}] :
                  \A nd \in Nodes : g[nd] \in PathsOf(nd, lengths)}}

IntRadius(n) == [kind |-> "int", n |-> n, f |-> Zero]
FloatRadius(r) == [kind |-> "float", n |-> 0, f |-> r]

\* a searchlight size whose type is neither int nor float (a str, None, ...)
OtherRadius == [kind |-> "other", n |-> 0, f |-> Zero]

Margins ==
    {[kind |-> "None", val |-> Zero], [kind |-> "True", val |-> Zero],
     [kind |-> "float", val |-> Flt(1003, 1)], [kind |-> "inf", val |-> Zero]}

InitIdleQ ==
    /\ qvoxprops = NoneAttrs
    /\ qcount = NoCount
    /\ qsel = NoneAttrs
    /\ qcount2 = NoCount
    /\ qsel2 = NoneAttrs
    /\ qpc = "idle"
    /\ agg_n2d = << >>

InitRun ==
    /\ mainpc = "init"
    /\ node2volume_attributes = NoResult
    /\ nmerged = 0
    /\ error = "none"
    /\ warned = FALSE
    /\ warned_nproc = FALSE
    /\ wpc = [w \in Workers |-> "idle"]
    /\ block = [w \in Workers |-> << >>]
    /\ pos = [w \in Workers |-> 0]
    /\ optimizer = [w \in Workers |-> _RadiusOptimizer(Zero)]
    /\ iter = [w \in Workers |-> 0]
    /\ radius_mm = [w \in Workers |-> Zero]
    /\ voxel_attributes = [w \in Workers |-> NoneAttrs]
    /\ result = [w \in Workers |-> << >>]
    /\ raised = [w \in Workers |-> "none"]

\* one worker, every node of the intermediate surface a center
Init ==
    /\ radius \in {IntRadius(n) : n \in 1..MaxCount}
                  \cup {FloatRadius(Flt(1003, 1)), OtherRadius}
    /\ n2v \in Tables
    /\ surf \in Surfaces(Lengths)
    /\ outside_node_margin \in Margins
    /\ source_surf_nodes = [i \in 1..(MaxNode + 1) |-> i - 1]
    /\ visitorder \in PermSeqs(MaxNode + 1)
    /\ src2intermediate = [nd \in Nodes |-> nd]
    /\ nproc = 1
    /\ pprocess = TRUE
    /\ InitRun
    /\ InitIdleQ

Next ==
    \/ Construct
    \/ ResolveNproc
    \/ CallReduceMapper
    \/ CheckEligibility(1)
    \/ Trial(1)
    \/ Finish(1)
    \/ ReduceReturn(1)
    \/ CallReturn
    \/ CallRaise
    \/ Return

Spec == Init /\ [][Next]_vars

\* _select_approx alone, on every sorted sequence of distances; the
\* distances are whole numbers here, _select_approx only tests them for
\* equality
InitQ ==
    /\ \E n \in 0..MaxLen : \E ds \in SortedSeqs(1..MaxDist, n) :
          qvoxprops = Attrs([i \in 1..n |-> 10 + i],
                            ds,
                            [i \in 1..n |-> PosOf(0, i)])
    /\ qcount \in (1..(MaxLen + 1)) \cup {NoCount}
    /\ qsel = NoneAttrs
    /\ qcount2 = NoCount
    /\ qsel2 = NoneAttrs
    /\ qpc = "input"
    /\ agg_n2d = << >>
    /\ radius = IntRadius(1)
    /\ n2v = [nd \in Nodes |-> Absent]
    /\ surf = SurfaceOf([nd \in Nodes |-> NoPath])
    /\ outside_node_margin = [kind |-> "None", val |-> Zero]
    /\ source_surf_nodes = << >>
    /\ visitorder = << >>
    /\ src2intermediate = [nd \in Nodes |-> nd]
    /\ nproc = 1
    /\ pprocess = TRUE
    /\ InitRun

NextQ == SelectApprox \/ SelectAgain

SpecQ == InitQ /\ [][NextQ]_vars

\* distances of a node to the center
Distances == {Flt(1200, 0), Flt(1003, 1), Flt(1003, 3)}

\* a node-to-voxel table and a node-to-distance mapping of any nodes
InitA ==
    /\ n2v \in Tables
    /\ \E nds \in SUBSET Nodes : agg_n2d \in [nds -> Distances]
    /\ qvoxprops = NoneAttrs
    /\ qcount = NoCount
    /\ qsel = NoneAttrs
    /\ qcount2 = NoCount
    /\ qsel2 = NoneAttrs
    /\ qpc = "n2d"
    /\ radius = IntRadius(1)
    /\ surf = SurfaceOf([nd \in Nodes |-> NoPath])
    /\ outside_node_margin = [kind |-> "None", val |-> Zero]
    /\ source_surf_nodes = << >>
    /\ visitorder = << >>
    /\ src2intermediate = [nd \in Nodes |-> nd]
    /\ nproc = 1
    /\ pprocess = TRUE
    /\ InitRun

NextA == Aggregate

SpecA == InitA /\ [][NextA]_vars

\* an optimizer as VoxelSelector.__init__ makes it, not yet started
InitO ==
    /\ radius \in {IntRadius(n) : n \in 1..MaxCount}
                  \cup {FloatRadius(Flt(1003, 1)), FloatRadius(Flt(1200, 2))}
    /\ n2v = [nd \in Nodes |-> Absent]
    /\ surf = SurfaceOf([nd \in Nodes |-> NoPath])
    /\ outside_node_margin = [kind |-> "None", val |-> Zero]
    /\ source_surf_nodes = << >>
    /\ visitorder = << >>
    /\ src2intermediate = [nd \in Nodes |-> nd]
    /\ nproc = 1
    /\ pprocess = TRUE
    /\ mainpc = "init"
    /\ node2volume_attributes = NoResult
    /\ nmerged = 0
    /\ error = "none"
    /\ warned = FALSE
    /\ warned_nproc = FALSE
    /\ wpc = [w \in Workers |-> "idle"]
    /\ block = [w \in Workers |-> << >>]
    /\ pos = [w \in Workers |-> 0]
    /\ optimizer = [w \in Workers |-> _RadiusOptimizer(_initradius_mm)]
    /\ iter = [w \in Workers |-> 0]
    /\ radius_mm = [w \in Workers |-> Zero]
    /\ voxel_attributes = [w \in Workers |-> NoneAttrs]
    /\ result = [w \in Workers |-> << >>]
    /\ raised = [w \in Workers |-> "none"]
    /\ qvoxprops = NoneAttrs
    /\ qcount = NoCount
    /\ qsel = NoneAttrs
    /\ qcount2 = NoCount
    /\ qsel2 = NoneAttrs
    /\ qpc = "new"
    /\ agg_n2d = << >>

NextO == OptStart \/ OptNext \/ OptFinal

SpecO == InitO /\ [][NextO]_vars

\* several workers: centers on a source surface of its own, in any order
SrcNodes == 0..MaxSrc

\* the searchlight sizes, tables and margins of the runs with workers:
\* every node encloses two voxels; only node 0 does and the other centers
\* are skipped, or are admitted; node 0 encloses no voxel and its
\* selection grows, or raises with a fixed radius; no node encloses a voxel
\* and every center is skipped
ParInput(r, t, m) ==
    [radius |-> r, n2v |-> t, outside_node_margin |-> [kind |-> m, val |-> Zero]]

ParInputs ==
    LET all == [nd \in Nodes |-> Encloses(nd, 2)]
        first == [nd \in Nodes |-> IF nd = 0 THEN Encloses(nd, 2) ELSE NoneEntry]
        rest == [nd \in Nodes |-> IF nd = 0 THEN Encloses(nd, 0)
                                  ELSE Encloses(nd, 2)]
        none == [nd \in Nodes |-> NoneEntry]
    IN {ParInput(IntRadius(1), all, "None"),
        ParInput(IntRadius(1), none, "None"),
        ParInput(IntRadius(1), first, "None"),
        ParInput(IntRadius(1), first, "True"),
        ParInput(IntRadius(1), rest, "None"),
        ParInput(FloatRadius(Flt(1200, 2)), rest, "None")}

InitPar ==
    /\ \E inp \in ParInputs :
          /\ radius = inp.radius
          /\ n2v = inp.n2v
          /\ outside_node_margin = inp.outside_node_margin
    /\ surf = SurfaceOf([nd \in Nodes |-> IF nd = 0 THEN Path(Zero)
                                          ELSE Path(Flt(1003, 3))])
    /\ source_surf_nodes \in {[i \in 1..k |-> i - 1] : k \in 0..(MaxSrc + 1)}
    /\ visitorder \in PermSeqs(Len(source_surf_nodes))
    /\ src2intermediate = [sn \in SrcNodes |-> sn % (MaxNode + 1)]
    /\ nproc \in (1..MaxProc) \cup {NoProc}
    /\ pprocess \in BOOLEAN
    /\ InitRun
    /\ InitIdleQ

NextPar ==
    \/ Construct
    \/ ResolveNproc
    \/ ForkImportError
    \/ Fork
    \/ CallReduceMapper
    \/ \E w \in Workers : CheckEligibility(w)
    \/ \E w \in Workers : Trial(w)
    \/ \E w \in Workers : Finish(w)
    \/ \E w \in Workers : ReduceReturn(w)
    \/ Merge
    \/ ForkRaise
    \/ CallReturn
    \/ CallRaise
    \/ Return

SpecPar == InitPar /\ [][NextPar]_vars

(***************************************************************************)
(* Properties of the growth loop (specification Spec)                      *)
(***************************************************************************)
\* the worker took a step of its own
Stepped(w) == wpc'[w] # wpc[w] \/ pos'[w] # pos[w] \/ iter'[w] # iter[w]

\* the growth loop ended without any trial being accepted
Exhausted(w) == wpc[w] = "after" /\ voxel_attributes[w].kind = "None"

\* the growth loop ended with the set of the last trial accepted
Accepted(w) == wpc[w] = "after" /\ voxel_attributes[w].kind = "dict"

\* C1: when all 100 trials of a center are insufficient (100 calls of
\* get_next), the selection of that center raises and adds nothing to the
\* result, and voxel_selection ends raising, without a result, whatever
\* was selected before.
C1_ExhaustionIsFatal ==
    /\ [][\A w \in Workers :
            (Exhausted(w) /\ Stepped(w)) =>
                /\ wpc'[w] = "raised"
                /\ raised'[w] # "none"
                /\ result'[w] = result[w]]_vars
    /\ [](\A w \in Workers :
            /\ Exhausted(w) => optimizer[w]._count = maxiter
            /\ wpc[w] = "raised" =>
                  /\ mainpc \in {"call", "collect", "raised"}
                  /\ mainpc = "raised" => error # "none")
    /\ [](mainpc = "raised" => node2volume_attributes = NoResult)

C1_Witness ==
    \E w \in Workers :
        /\ wpc[w] = "raised"
        /\ voxel_attributes[w].kind = "None"
        /\ optimizer[w]._count = maxiter
        /\ DOMAIN result[w] # {}
        /\ mainpc = "raised"

\* C2: a center whose k-th trial is the first accepted one, with at least
\* one voxel, returns the set of that trial and raises nothing, for every
\* k in 1..100.
C2_AcceptedTrialReturns ==
    [][\A w \in Workers :
         (Accepted(w) /\ Stepped(w)
            /\ Len(voxel_attributes[w].center_distances) > 0) =>
             /\ wpc'[w] = "reduce"
             /\ raised'[w] = "none"
             /\ Center(w)[1] \in DOMAIN result'[w]
             /\ result'[w][Center(w)[1]].linear_voxel_indices
                   = voxel_attributes[w].linear_voxel_indices]_vars

\* a set accepted at the 100th trial
C2_Witness ==
    \E w \in Workers :
        /\ Accepted(w)
        /\ iter[w] = maxiter - 1
        /\ Len(voxel_attributes[w].center_distances) > 0

\* the voxels enclosed by a node that the oracle reports within r of trg
EnclosedWithin(trg, r) ==
    UNION {DOMAIN n2v[nd].vps :
             nd \in {x \in DOMAIN circlearound_n2d(trg, r) :
                       n2v[x].kind = "dict"}}

\* the set selected for src holds each voxel of EnclosedWithin once, and
\* no distance above rmax
CompleteWithin(sel, trg, r, rmax) ==
    /\ {sel.linear_voxel_indices[i] : i \in 1..Len(sel.linear_voxel_indices)}
          = EnclosedWithin(trg, r)
    /\ Len(sel.linear_voxel_indices) = Cardinality(EnclosedWithin(trg, r))
    /\ Len(sel.center_distances) = Len(sel.linear_voxel_indices)
    /\ \A i \in 1..Len(sel.center_distances) :
          FLe(sel.center_distances[i], rmax)

\* C4 as stated: in fixed-radius mode the set returned for a center holds
\* exactly the voxels enclosed by a node within the radius r, each once,
\* and every returned distance is at most r.
C4_FixedRadiusComplete ==
    \A w \in Workers : \A src \in DOMAIN result[w] :
        _fixedradius =>
            CompleteWithin(result[w][src], src2intermediate[src],
                           radius.f, radius.f)

\* C4 amended: in fixed-radius mode a center with at least one voxel
\* enclosed by a node within r returns exactly those voxels, each once,
\* with every returned distance at most r rounded to single precision (the
\* returned distances are np.float32 values); a center with no such voxel
\* returns nothing: its selection raises.
C4_FixedRadiusCompleteF32 ==
    _fixedradius =>
        \A w \in Workers :
            /\ \A src \in DOMAIN result[w] :
                  /\ CompleteWithin(result[w][src], src2intermediate[src],
                                    radius.f, Float32(radius.f))
                  /\ EnclosedWithin(src2intermediate[src], radius.f) # {}
            /\ wpc[w] = "raised" =>
                  EnclosedWithin(Center(w)[2], radius.f) = {}
            /\ wpc[w] = "after" =>
                  /\ voxel_attributes[w].kind = "dict"
                  /\ iter[w] = 0

\* a set returned in fixed-radius mode with a voxel enclosed by two nodes
\* in range
C4_Witness ==
    /\ _fixedradius
    /\ \E w \in Workers : \E src \in DOMAIN result[w] :
          /\ Len(result[w][src].linear_voxel_indices) >= 2
          /\ \E vx \in Voxels : \A nd \in Nodes :
                /\ nd \in DOMAIN circlearound_n2d(src2intermediate[src],
                                                  radius.f)
                /\ n2v[nd].kind = "dict"
                /\ vx \in DOMAIN n2v[nd].vps

\* the center is admitted to the growth loop
Admitted(c) ==
    \/ n2v[c].kind = "dict"
    \/ outside_node_margin.kind = "True"
    \/ /\ outside_node_margin.kind = "float"
       /\ \E nd \in Nodes :
             /\ n2v[nd].kind = "dict"
             /\ surf[<< c, nd >>].conn
             /\ FLe(surf[<< c, nd >>].d, outside_node_margin.val)
    \/ /\ outside_node_margin.kind = "inf"
       /\ \E nd \in Nodes : n2v[nd].kind = "dict"

\* C5: a center enters the growth loop if and only if its table entry is
\* not None, or the margin is True, or the margin is a finite m and a node
\* with an entry that is not None lies within m, or the margin is infinite
\* and some node has an entry that is not None; a center that does not
\* enter it returns the empty result.
C5_Eligibility ==
    [][\A w \in Workers :
         (wpc[w] = "reduce" /\ pos[w] < Len(block[w]) /\ Stepped(w)) =>
             /\ (wpc'[w] = "growth") <=> Admitted(Center(w)[2])
             /\ wpc'[w] # "growth" =>
                   /\ wpc'[w] = "reduce"
                   /\ pos'[w] = pos[w] + 1
                   /\ result'[w] = result[w]]_vars

\* a center outside the volume in the growth loop by a finite margin
C5_Witness ==
    \E w \in Workers :
        /\ wpc[w] = "growth"
        /\ n2v[Center(w)[2]].kind # "dict"
        /\ outside_node_margin.kind = "float"

\* C6: a center whose accepted set holds no voxel returns that empty set
\* and raises nothing.
C6_EmptyAcceptedReturns ==
    [][\A w \in Workers :
         (Accepted(w) /\ Stepped(w) /\ iter[w] + 1 < maxiter
            /\ Len(voxel_attributes[w].center_distances) = 0) =>
             /\ wpc'[w] = "reduce"
             /\ raised'[w] = "none"]_vars

\* an empty set accepted by a cut at position 0 in fixed-count mode
C6_Witness ==
    \E w \in Workers :
        /\ Accepted(w)
        /\ ~_fixedradius
        /\ Len(voxel_attributes[w].center_distances) = 0

\* C13: a size of type int makes the selection one by count, with the size
\* as the count a trial has to reach; a size of type float makes it one by
\* radius, with the size as the radius of the only trial; a size of another
\* type ends the run with an error before any center is looked at.
C13_ModeByType ==
    /\ [](radius.kind = "other" =>
             /\ mainpc \in {"init", "raised"}
             /\ mainpc = "raised" => error = "TypeError"
             /\ node2volume_attributes = NoResult
             /\ \A w \in Workers : wpc[w] = "idle" /\ pos[w] = 0)
    /\ [](radius.kind = "float" =>
             \A w \in Workers :
                 wpc[w] \in {"growth", "after"} =>
                     /\ radius_mm[w] = radius.f
                     /\ iter[w] = 0
                     /\ optimizer[w]._count = 0)
    /\ [][\A w \in Workers :
            (wpc[w] = "growth" /\ Stepped(w)) =>
                LET n == Cardinality(EnclosedWithin(Center(w)[2],
                                                    radius_mm[w]))
                IN /\ radius.kind = "int" =>
                         ((voxel_attributes'[w].kind = "None")
                             <=> (n < radius.n \/ n = 0))
                   /\ radius.kind = "float" =>
                         /\ voxel_attributes'[w].kind = "dict"
                         /\ Len(voxel_attributes'[w].center_distances) = n
                         /\ wpc'[w] = "after"]_vars

C13_Witness ==
    /\ radius.kind = "other"
    /\ mainpc = "raised"
    /\ error = "TypeError"

(***************************************************************************)
(* Properties of _select_approx (specification SpecQ)                      *)
(***************************************************************************)
\* _select_approx was applied to a sorted input of at least qcount voxels
Selected ==
    /\ qpc # "input"
    /\ qcount # NoCount
    /\ qcount <= Len(qvoxprops.center_distances)

\* the 1-based first and last index of the maximal run of equal distances
\* that holds the 1-based index k
RunFirst(ds, k) ==
    CHOOSE i \in 1..k :
        /\ \A j \in i..k : ds[j] = ds[k]
        /\ i > 1 => ds[i - 1] # ds[k]

RunLast(ds, k) ==
    CHOOSE i \in k..Len(ds) :
        /\ \A j \in k..i : ds[j] = ds[k]
        /\ i < Len(ds) => ds[i + 1] # ds[k]

Abs(x) == IF x < 0 THEN -x ELSE x

\* C3: for a sorted input of n voxels and a count k in 1..n, the number of
\* voxels returned differs from k by at most the size of the run of equal
\* distances that holds index k-1, and the cut is at firstpos or at
\* lastpos + 1 of that run.
C3_CountBound ==
    Selected =>
        LET ds == qvoxprops.center_distances
            first == RunFirst(ds, qcount)
            last == RunLast(ds, qcount)
            cut == Len(qsel.center_distances)
        IN /\ qsel.kind = "dict"
           /\ cut \in {first - 1, last}
           /\ Abs(cut - qcount) <= last - first + 1
           /\ Len(qsel.linear_voxel_indices) = cut
           /\ Len(qsel.grey_matter_position) = cut

\* a cut below the count, in front of a run of three
C3_Witness ==
    /\ Selected
    /\ qcount = 3
    /\ Len(qsel.center_distances) = 2
    /\ RunLast(qvoxprops.center_distances, 3) = 5

\* C9 as stated: _select_approx applied to its own output S with the same
\* or a larger count returns S.
C9_Idempotent ==
    (qpc = "reselected" /\ qcount # NoCount /\ qcount2 >= qcount)
        => qsel2 = qsel

\* C9 amended: _select_approx applied to its own output S with a count
\* from the first count up to the number of voxels of S returns S; with a
\* count above the number of voxels of S it returns None.
C9_IdempotentWithinSize ==
    (qpc = "reselected" /\ qcount # NoCount /\ qcount2 >= qcount) =>
        IF qcount2 <= Len(qsel.center_distances)
        THEN qsel2 = qsel
        ELSE qsel2 = NoneAttrs

\* an output of at least count voxels, selected again with a larger count
C9_Witness ==
    /\ qpc = "reselected"
    /\ qcount # NoCount
    /\ qcount2 > qcount
    /\ qcount2 <= Len(qsel.center_distances)
    /\ Len(qsel.center_distances) < Len(qvoxprops.center_distances)

\* C10: for the distances [1,1,2,2,2,3] and count 3 the cut is at
\* firstpos = 2, and the first two voxels are returned in all three
\* sequences.
C10_LiteralTieBreak ==
    (qpc # "input" /\ qcount = 3
       /\ qvoxprops.center_distances = << 1, 1, 2, 2, 2, 3 >>) =>
        /\ Chunk(qvoxprops.center_distances, 3).curchunk[1] = 2
        /\ qsel = Attrs(SubSeq(qvoxprops.linear_voxel_indices, 1, 2),
                        << 1, 1 >>,
                        SubSeq(qvoxprops.grey_matter_position, 1, 2))

C10_Witness ==
    /\ qpc = "selected"
    /\ qcount = 3
    /\ qvoxprops.center_distances = << 1, 1, 2, 2, 2, 3 >>
    /\ Len(qsel.linear_voxel_indices) = 2


\* C11: for a sorted input of n voxels and a count k in 1..n, with firstpos
\* and lastpos the 0-based ends of the run of equal distances that holds
\* index k-1, c the number of runs up to and including it and
\* delta = (k - firstpos) - (lastpos - k), the output is the prefix of
\* length lastpos+1 when delta > 0, of length firstpos when delta < 0, and
\* when delta = 0 of length firstpos for c even and lastpos+1 for c odd.
C11_CutRule ==
    Selected =>
        LET ds == qvoxprops.center_distances
            firstpos == RunFirst(ds, qcount) - 1
            lastpos == RunLast(ds, qcount) - 1
            c == Cardinality({ds[i] : i \in 1..(lastpos + 1)})
            delta == (qcount - firstpos) - (lastpos - qcount)
            cut == IF delta > 0 THEN lastpos + 1
                   ELSE IF delta < 0 THEN firstpos
                   ELSE IF c % 2 = 0 THEN firstpos ELSE lastpos + 1
        IN qsel = Attrs(SubSeq(qvoxprops.linear_voxel_indices, 1, cut),
                        SubSeq(ds, 1, cut),
                        SubSeq(qvoxprops.grey_matter_position, 1, cut))

\* a tie in the third run, cut behind it
C11_Witness ==
    /\ Selected
    /\ qcount = 3
    /\ qvoxprops.center_distances = << 1, 2, 3, 3, 3 >>
    /\ Len(qsel.center_distances) = 5

RECURSIVE GrowthOutcome(_, _, _)
GrowthOutcome(trg, o, j) ==
    LET va == TrialAttrs(trg, o._curradius)
    IN IF va.kind = "None" /\ j + 1 < maxiter
       THEN GrowthOutcome(trg, get_next(o), j + 1)
       ELSE [va |-> va, iter |-> j]

\* _reduce_mapper on the centers from position i on, started with the
\* mapping d and the optimizer o, as one process runs it
RECURSIVE ReduceFrom(_, _, _, _)
ReduceFrom(centers, i, d, o) ==
    IF i > Len(centers) THEN [err |-> "none", d |-> d]
    ELSE IF Skip(centers[i][2]) THEN ReduceFrom(centers, i + 1, d, o)
    ELSE LET out == GrowthOutcome(centers[i][2], get_start(o), 0)
         IN IF out.iter + 1 >= maxiter
            THEN [err |-> "TypeError", d |-> d]
            ELSE IF Len(out.va.center_distances) = 0
            THEN [err |-> "IndexError", d |-> d]
            ELSE ReduceFrom(centers, i + 1,
                            add(d, centers[i][1], out.va), o)

\* the run of voxel_selection with a single worker
SingleWorker ==
    ReduceFrom(src_trg_nodes, 1, << >>, _RadiusOptimizer(_initradius_mm))

\* the blocks of the workers one after the other
RECURSIVE Blocks(_)
Blocks(w) == IF w = 0 THEN << >> ELSE Blocks(w - 1) \o block[w]

\* the places where a center is being handled or has been handled
Handling(c) ==
    {wk \in {x \in Workers \X (1..Len(src_trg_nodes)) :
                x[2] <= Len(block[x[1]])} :
        /\ block[wk[1]][wk[2]] = c
        /\ \/ wk[2] <= pos[wk[1]]
           \/ wk[2] = pos[wk[1]] + 1 /\ wpc[wk[1]] \in {"growth", "after"}}

Handled(c) ==
    {wk \in Handling(c) : wk[2] <= pos[wk[1]]}

\* C7: when no center of the list ends in an error, a run with several
\* workers ends with the mapping a run with a single worker ends with: the
\* same keys, and under each key the same voxels, distances and positions
C7_ParallelEqualsSequential ==
    /\ (mainpc = "done" =>
           /\ SingleWorker.err = "none"
           /\ node2volume_attributes = Result(SingleWorker.d))
    /\ ((mainpc = "raised" /\ pprocess) => SingleWorker.err # "none")

C7_Witness ==
    /\ mainpc = "done"
    /\ nproc = MaxProc
    /\ nmerged = nproc
    /\ Len(src_trg_nodes) > nproc
    /\ radius.kind = "int"
    /\ Cardinality(DOMAIN node2volume_attributes.d) = Len(src_trg_nodes)
    /\ \E w \in Workers : Len(block[w]) > 1

\* C8: with P workers the list of centers is cut once into P slices that
\* follow one another, share no center and together are the whole list, a
\* slice being empty when P exceeds the number of centers; no center is
\* handled by two workers, and at the end each has been handled once
Partitioned ==
    (mainpc \in {"collect", "collected", "done"} /\ nproc > 1) =>
        /\ Blocks(nproc) = src_trg_nodes
        /\ \A w \in Workers : w > nproc => block[w] = << >>
        /\ \A w \in 1..nproc :
              /\ Len(block[w]) <= (Len(src_trg_nodes) \div nproc) + 1
              /\ Len(block[w]) >= Len(src_trg_nodes) \div nproc
        /\ \A i \in 1..Len(src_trg_nodes) :
              /\ Cardinality(Handling(src_trg_nodes[i])) <= 1
              /\ mainpc = "done" =>
                    Cardinality(Handled(src_trg_nodes[i])) = 1

\* C8: the slices are made once, before any worker starts, and stay as
\* they are while the workers run
C8_StaticPartition ==
    /\ []Partitioned
    /\ [][(mainpc \in {"collect", "collected", "done"}) => (block' = block)]_vars

C8_Witness ==
    /\ mainpc = "done"
    /\ nproc = MaxProc
    /\ Len(src_trg_nodes) = nproc - 1
    /\ Len(src_trg_nodes) > 0
    /\ block[nproc] = << >>
    /\ block[1] # << >>


\* C14: a run in which no center produced a voxel (every center skipped,
\* or no center at all) issues the warning 'No voxels associated with any
\* of ... nodes' and returns, whatever the number of workers.
C14_EmptyRunWarns ==
    (mainpc = "done" /\ DOMAIN node2volume_attributes.d = {}) => warned

\* a run of several workers that returned an empty mapping
C14_Witness ==
    /\ mainpc = "done"
    /\ nproc > 1
    /\ Len(src_trg_nodes) > 0
    /\ DOMAIN node2volume_attributes.d = {}


\* C15: when pprocess cannot be imported, voxel_selection goes on with a
\* single worker and a warning, whatever nproc was given (None, 1 or more
\* than 1), and does not end with an error for it.
C15_FallbackToOneWorker ==
    /\ [](~pprocess =>
             /\ error # "ImportError"
             /\ mainpc \in {"call", "collect", "collected", "done"} =>
                   nproc = 1)
    /\ [][(~pprocess /\ mainpc = "constructed" /\ mainpc' # mainpc
             /\ nproc # 1) =>
              (nproc' = 1 /\ warned_nproc')]_vars

\* the fallback of nproc=None
C15_Witness ==
    /\ ~pprocess
    /\ warned_nproc
    /\ nproc = 1
    /\ mainpc = "done"
    /\ DOMAIN node2volume_attributes.d # {}


\* the radius of trial number j (from 0) of a selection that starts at r
TrialRadius(r, j) == IF r.m = 0 THEN r ELSE Flt(r.m, r.e + j)

C17_OptimizerReset ==
    /\ [](optimizer[1]._initradius = _initradius_mm)
    /\ [](qpc = "start" =>
             /\ radius_mm[1] = _initradius_mm
             /\ optimizer[1]._curradius = _initradius_mm
             /\ optimizer[1]._count = 0)
    /\ [][(qpc' = "final") => (optimizer' = optimizer)]_vars
    /\ [][(qpc' = "next") =>
             (radius_mm'[1] = TrialRadius(_initradius_mm,
                                          optimizer'[1]._count))]_vars

\* get_start has just returned, after three calls of get_next and two of
\* set_final
C17_Witness ==
    /\ qpc = "start"
    /\ pos[1] = 3
    /\ iter[1] = 2
    /\ radius_mm[1] = _initradius_mm
    /\ optimizer[1]._count = 0


(***************************************************************************)
(* Properties of the end of a center's selection (specification Spec)      *)
(***************************************************************************)
\* C18: the error raised when the growth loop of a center has used up its
\* 100 trials is the ValueError of line 277, naming the target count and
\* the center, and no error of another kind.
C18_ExhaustionRaisesValueError ==
    [][\A w \in Workers :
         (Exhausted(w) /\ Stepped(w)) =>
             (wpc'[w] = "raised" /\ raised'[w] = "ValueError")]_vars

\* a center whose 100 trials were all insufficient, the first of its block
C18_Witness ==
    \E w \in Workers :
        /\ Exhausted(w)
        /\ iter[w] = maxiter - 1
        /\ pos[w] = 0
        /\ ~_fixedradius


\* the selection of the center of worker w ends with this step
Ends(w) == wpc[w] = "after" /\ Stepped(w)

\* terminal state Accept of the growth loop: the loop ended with a set
\* accepted; the selection ends with the set recorded, or with an error
\* raised behind the loop, after which the worker goes to no further center
Accept(w) ==
    /\ voxel_attributes[w].kind = "dict"
    /\ \/ /\ wpc'[w] = "reduce"
          /\ raised'[w] = "none"
          /\ pos'[w] = pos[w] + 1
          /\ Center(w)[1] \in DOMAIN result'[w]
       \/ /\ wpc'[w] = "raised"
          /\ raised'[w] # "none"
          /\ result'[w] = result[w]
          /\ pos'[w] = pos[w]

\* terminal state Fatal of the growth loop: the cap is exceeded, all maxiter
\* trials were insufficient; the selection raises, nothing is recorded and
\* the worker goes to no further center
Fatal(w) ==
    /\ voxel_attributes[w].kind = "None"
    /\ optimizer[w]._count = maxiter
    /\ wpc'[w] = "raised"
    /\ raised'[w] # "none"
    /\ result'[w] = result[w]
    /\ pos'[w] = pos[w]

\* terminal state Rejected: the center is skipped without a trial
Rejected(w) ==
    /\ wpc[w] = "reduce"
    /\ wpc'[w] = "reduce"
    /\ Skip(Center(w)[2])
    /\ result'[w] = result[w]

\* the oracle is asked at most maxiter times for one center, and a trial
\* is made only for the center the worker is at
C19_QueriesBounded ==
    \A w \in Workers :
        wpc[w] \in {"growth", "after"} =>
            /\ iter[w] < maxiter
            /\ optimizer[w]._count <= maxiter
            /\ pos[w] < Len(block[w])

EnclosingInRange(vx) ==
    {nd \in DOMAIN agg_n2d :
        n2v[nd].kind = "dict" /\ vx \in DOMAIN n2v[nd].vps}

\* the pair (distance, position) of vx that is first in lexicographic order
NearestPair(vx) ==
    LET pairs == {<< agg_n2d[nd], n2v[nd].vps[vx] >> :
                     nd \in EnclosingInRange(vx)}
    IN CHOOSE a \in pairs :
          \A b \in pairs :
             FLt(a[1], b[1]) \/ (a[1] = b[1] /\ FLe(a[2], b[2]))

\* the voxels of the output are the voxels enclosed by a node of the
\* distance mapping with a table entry that is not None, each once
OnceEach ==
    LET vxs == qvoxprops.linear_voxel_indices
    IN /\ qvoxprops.kind = "dict"
       /\ {vxs[i] : i \in 1..Len(vxs)}
             = {vx \in 1..(MaxNode + MaxVox) : EnclosingInRange(vx) # {}}
       /\ \A i, j \in 1..Len(vxs) : vxs[i] = vxs[j] => i = j
       /\ Len(qvoxprops.center_distances) = Len(vxs)
       /\ Len(qvoxprops.grey_matter_position) = Len(vxs)

\* C20 as stated: a voxel is in the output iff a node of the distance
\* mapping with a table entry that is not None encloses it, it is there
\* once, and its (distance, position) is the lexicographic minimum of the
\* pairs of the nodes in range enclosing it.
C20_ClosestWins ==
    qpc = "aggregated" =>
        /\ OnceEach
        /\ \A i \in 1..Len(qvoxprops.linear_voxel_indices) :
              << qvoxprops.center_distances[i],
                 qvoxprops.grey_matter_position[i] >>
                 = NearestPair(qvoxprops.linear_voxel_indices[i])

\* C20 with the output as the code stores it: a voxel is in the output iff
\* a node of the distance mapping with a table entry that is not None
\* encloses it, it is there once, and its distance and position are the
\* single-precision values of the lexicographic minimum of the pairs.
C20_ClosestWinsF32 ==
    qpc = "aggregated" =>
        /\ OnceEach
        /\ \A i \in 1..Len(qvoxprops.linear_voxel_indices) :
              LET m == NearestPair(qvoxprops.linear_voxel_indices[i])
              IN /\ qvoxprops.center_distances[i] = Float32(m[1])
                 /\ qvoxprops.grey_matter_position[i] = Float32(m[2])

\* two nodes at the same distance enclose the same voxel at different
\* positions, and a third voxel has one node only
C20_Witness ==
    /\ qpc = "aggregated"
    /\ DOMAIN agg_n2d = {0, 1}
    /\ agg_n2d[0] = agg_n2d[1]
    /\ Cardinality(EnclosingInRange(2)) = 2
    /\ Cardinality(EnclosingInRange(1)) = 1
    /\ Len(qvoxprops.linear_voxel_indices) = MaxVox + 1


(***************************************************************************)
(* Properties of the voxel sets of a run (specification Spec)              *)
(***************************************************************************)
\* the three sequences of a voxel set have one length, the distances do not
\* decrease and no voxel id comes twice
Ordered(va) ==
    /\ Len(va.center_distances) = Len(va.linear_voxel_indices)
    /\ Len(va.grey_matter_position) = Len(va.linear_voxel_indices)
    /\ \A i, j \in 1..Len(va.linear_voxel_indices) :
          /\ i < j => FLe(va.center_distances[i], va.center_distances[j])
          /\ va.linear_voxel_indices[i] = va.linear_voxel_indices[j] => i = j

\* index i of the three sequences is about one voxel: the distance and the
\* position at i are those of a node within r of trg that encloses the
\* voxel at i
SameVoxel(va, trg, r) ==
    \A i \in 1..Len(va.linear_voxel_indices) :
       \E nd \in DOMAIN circlearound_n2d(trg, r) :
          /\ n2v[nd].kind = "dict"
          /\ va.linear_voxel_indices[i] \in DOMAIN n2v[nd].vps
          /\ va.center_distances[i] = Float32(circlearound_n2d(trg, r)[nd])
          /\ va.grey_matter_position[i]
                = Float32(n2v[nd].vps[va.linear_voxel_indices[i]])

\* the voxel set nodes2voxel_attributes gives in the trial worker w is at
Aggregated(w) ==
    nodes2voxel_attributes(circlearound_n2d(Center(w)[2], radius_mm[w]), n2v)

\* C21: in every voxel set that nodes2voxel_attributes gives, that
\* _select_approx returns and that the selection of a center returns, the
\* distances are in non-decreasing order, the voxel ids are pairwise
\* distinct, and ids, distances and positions have one length, index i
\* being about the same voxel in the three of them.
C21_OrderingInvariant ==
    \A w \in Workers :
        /\ wpc[w] = "growth" =>
              /\ Ordered(Aggregated(w))
              /\ SameVoxel(Aggregated(w), Center(w)[2], radius_mm[w])
        /\ (wpc[w] = "after" /\ voxel_attributes[w].kind = "dict") =>
              /\ Ordered(voxel_attributes[w])
              /\ SameVoxel(voxel_attributes[w], Center(w)[2], radius_mm[w])
        /\ \A src \in DOMAIN result[w] : Ordered(result[w][src])

\* a set of several voxels at more than one distance, cut by
\* _select_approx, whose ids are not in ascending order
C21_Witness ==
    \E w \in Workers :
        /\ wpc[w] = "after"
        /\ voxel_attributes[w].kind = "dict"
        /\ ~_fixedradius
        /\ Len(voxel_attributes[w].linear_voxel_indices) >= 2
        /\ voxel_attributes[w].center_distances[1]
              # voxel_attributes[w].center_distances[
                    Len(voxel_attributes[w].center_distances)]
        /\ \E i \in 1..(Len(voxel_attributes[w].linear_voxel_indices) - 1) :
              voxel_attributes[w].linear_voxel_indices[i]
                 > voxel_attributes[w].linear_voxel_indices[i + 1]


(***************************************************************************)
(* Further properties of _select_approx (specification SpecQ)              *)
(***************************************************************************)
\* the voxel ids _select_approx returned
Returned == {qsel.linear_voxel_indices[i] :
                i \in 1..Len(qsel.linear_voxel_indices)}

\* C22: when _select_approx returns a set for a sorted input and a count,
\* the cut splits no run of equal distances: of the input voxels at one
\* distance all are returned or none is, and no returned voxel is farther
\* than an input voxel that is not returned.
C22_ChunkAtomicity ==
    (Selected /\ qsel.kind = "dict") =>
        LET ids == qvoxprops.linear_voxel_indices
            ds == qvoxprops.center_distances
        IN /\ Returned \subseteq {ids[i] : i \in 1..Len(ids)}
           /\ \A i, j \in 1..Len(ids) :
                 /\ ds[i] = ds[j] =>
                       (ids[i] \in Returned <=> ids[j] \in Returned)
                 /\ (ids[i] \in Returned /\ ids[j] \notin Returned) =>
                       ds[i] <= ds[j]

\* the count falls inside a run of equal distances, and some voxels but not
\* all are returned
C22_Witness ==
    /\ Selected
    /\ qsel.kind = "dict"
    /\ RunFirst(qvoxprops.center_distances, qcount) < qcount
    /\ RunLast(qvoxprops.center_distances, qcount) > qcount
    /\ Len(qsel.center_distances) > 0
    /\ Len(qsel.center_distances) < Len(qvoxprops.center_distances)

\* C23: for a sorted input of n voxels and a count k in 1..n, of the two
\* cuts firstpos and lastpos + 1 at the ends of the run that holds index
\* k-1, _select_approx takes one for which |cut - k| is the smaller.
C23_NearestCut ==
    Selected =>
        LET ds == qvoxprops.center_distances
            firstpos == RunFirst(ds, qcount) - 1
            lastpos == RunLast(ds, qcount) - 1
            cut == Len(qsel.center_distances)
        IN /\ cut \in {firstpos, lastpos + 1}
           /\ Abs(cut - qcount) <= Abs(firstpos - qcount)
           /\ Abs(cut - qcount) <= Abs(lastpos + 1 - qcount)

\* delta = 0 with an odd number of runs: the cut is at lastpos + 1, one
\* voxel farther from the count than firstpos
C23_Witness ==
    /\ Selected
    /\ qcount = 1
    /\ qvoxprops.center_distances = << 1, 1, 1, 2, 2 >>
    /\ Len(qsel.center_distances) = 3


(***************************************************************************)
(* Further properties of the selection of a center (specification Spec)    *)
(***************************************************************************)
\* C24: when the outside-volume check rejects a center, the selection
\* returns the empty result at once: no trial is made (no query of
\* circlearound_n2d), and the current radius and the trial counter of the
\* optimizer stay as they are.
C24_RejectionLeavesSearch ==
    [][\A w \in Workers :
         (wpc[w] = "reduce" /\ pos[w] < Len(block[w]) /\ Stepped(w)
            /\ ~Admitted(Center(w)[2])) =>
             /\ wpc'[w] = "reduce"
             /\ pos'[w] = pos[w] + 1
             /\ optimizer'[w] = optimizer[w]
             /\ radius_mm'[w] = radius_mm[w]
             /\ iter'[w] = iter[w]
             /\ voxel_attributes'[w] = voxel_attributes[w]
             /\ result'[w] = result[w]
             /\ raised'[w] = "none"]_vars

\* a center has just been rejected, after a center whose selection was
\* recorded
C24_Witness ==
    \E w \in Workers :
        /\ wpc[w] = "reduce"
        /\ pos[w] > 1
        /\ ~Admitted(block[w][pos[w]][2])
        /\ block[w][pos[w]][1] \notin DOMAIN result[w]
        /\ optimizer[w].started
        /\ DOMAIN result[w] # {}


\* the trial worker w is at finds enough voxels: the neighborhood of its
\* radius holds at least the target count
Sufficient(w) ==
    Cardinality(EnclosedWithin(Center(w)[2], radius_mm[w])) >= radius.n

\* C25: in fixed-count mode trial j of a center asks the oracle with the
\* initial radius times 1.5^j; get_next is called once after every
\* insufficient trial and not after an accepted one; and the selection
\* accepts at the first trial whose neighborhood holds at least count
\* voxels, returning the set with the trial counter at that j (a center that
\* needs 3 growth steps: radius r0 * 1.5^3, counter 3).
C25_FirstSufficientRadius ==
    /\ [](\A w \in Workers :
            (~_fixedradius /\ wpc[w] = "growth") =>
                /\ radius_mm[w] = TrialRadius(_initradius_mm, iter[w])
                /\ optimizer[w]._count = iter[w])
    /\ [][\A w \in Workers :
            (~_fixedradius /\ wpc[w] = "growth" /\ Stepped(w)) =>
                IF Sufficient(w)
                THEN /\ wpc'[w] = "after"
                     /\ voxel_attributes'[w].kind = "dict"
                     /\ optimizer'[w] = optimizer[w]
                     /\ radius_mm'[w] = radius_mm[w]
                ELSE /\ voxel_attributes'[w].kind = "None"
                     /\ optimizer'[w]._count = optimizer[w]._count + 1
                     /\ optimizer'[w]._curradius
                           = TrialRadius(_initradius_mm, iter[w] + 1)
                     /\ radius_mm'[w] = optimizer'[w]._curradius]_vars
    /\ [][\A w \in Workers :
            (~_fixedradius /\ Accepted(w) /\ Stepped(w)) =>
                /\ wpc'[w] = "reduce"
                /\ raised'[w] = "none"
                /\ Center(w)[1] \in DOMAIN result'[w]
                /\ optimizer'[w]._count = iter[w]
                /\ optimizer'[w]._curradius
                      = TrialRadius(_initradius_mm, iter[w])]_vars

\* a center accepted after three growth steps
C25_Witness ==
    \E w \in Workers :
        /\ ~_fixedradius
        /\ Accepted(w)
        /\ iter[w] = 3
        /\ optimizer[w]._count = 3
        /\ radius_mm[w] = TrialRadius(_initradius_mm, 3)
        /\ Len(voxel_attributes[w].center_distances) > 0


\* the error raised for the exceeded cap (line 277)
CapError == "TypeError"

\* C26: in fixed-radius mode (a float radius) every center that passes the
\* outside-volume check gets one query of the oracle, with the configured
\* radius; get_next is never called, the growth loop never ends in Fatal
\* (cap exceeded), and every center of the run is searched with the same
\* radius.
C26_FixedRadiusNeverGrows ==
    /\ [](radius.kind = "float" =>
            \A w \in Workers :
                /\ wpc[w] \in {"growth", "after"} =>
                      /\ iter[w] = 0
                      /\ radius_mm[w] = radius.f
                      /\ optimizer[w]._count = 0
                /\ ~Exhausted(w)
                /\ raised[w] # CapError)
    /\ [][\A w \in Workers :
            (radius.kind = "float" /\ wpc[w] = "growth" /\ Stepped(w)) =>
                /\ wpc'[w] = "after"
                /\ voxel_attributes'[w].kind = "dict"
                /\ optimizer'[w] = optimizer[w]
                /\ radius_mm'[w] = radius_mm[w]]_vars
    /\ [][\A w \in Workers :
            (radius.kind = "float" /\ optimizer[w].started
                /\ optimizer'[w].started) =>
                optimizer'[w]._count = 0]_vars

\* in fixed-radius mode the second center of the block has had its one
\* trial, after a first center whose set was recorded
C26_Witness ==
    \E w \in Workers :
        /\ _fixedradius
        /\ wpc[w] = "after"
        /\ pos[w] = 1
        /\ DOMAIN result[w] # {}
        /\ iter[w] = 0
        /\ radius_mm[w] = radius.f
        /\ Len(voxel_attributes[w].center_distances) > 0


(***************************************************************************)
(* Properties of the result of a run (specification SpecPar)               *)
(***************************************************************************)
\* the source nodes given as centers
Sources == {source_surf_nodes[i] : i \in 1..Len(source_surf_nodes)}

\* the voxel set selected for node trg of the intermediate surface
SelectedFor(trg) ==
    GrowthOutcome(trg, get_start(_RadiusOptimizer(_initradius_mm)), 0).va

\* C27: a center rejected by the outside-volume check raises no error and
\* adds nothing to the result; after a run that ended without an error the
\* keys of the result are the source nodes src whose selection, made on the
\* node src2intermediate[src] of the intermediate surface, returned a
\* voxel set, and the entry under src is the voxel set selected for
\* src2intermediate[src].
C27_ResultKeys ==
    /\ [][\A w \in Workers :
            (wpc[w] = "reduce" /\ pos[w] < Len(block[w]) /\ Stepped(w)
               /\ ~Admitted(Center(w)[2])) =>
                /\ result'[w] = result[w]
                /\ raised'[w] = "none"
                /\ wpc'[w] = "reduce"]_vars
    /\ [](mainpc = "done" =>
            /\ node2volume_attributes.kind = "dict"
            /\ DOMAIN node2volume_attributes.d
                  = {src \in Sources : Admitted(src2intermediate[src])}
            /\ \A src \in DOMAIN node2volume_attributes.d :
                  LET va == SelectedFor(src2intermediate[src])
                      entry == node2volume_attributes.d[src]
                  IN /\ va.kind = "dict"
                     /\ entry.linear_voxel_indices = va.linear_voxel_indices
                     /\ entry.center_distances = va.center_distances
                     /\ entry.grey_matter_position = va.grey_matter_position)

\* a run with several workers has ended: some centers were rejected, and
\* two source nodes mapped to one node of the intermediate surface are
\* both keys
C27_Witness ==
    /\ mainpc = "done"
    /\ nproc > 1
    /\ \E src \in Sources : ~Admitted(src2intermediate[src])
    /\ \E s1, s2 \in DOMAIN node2volume_attributes.d :
          /\ s1 # s2
          /\ src2intermediate[s1] = src2intermediate[s2]
          /\ s2 # src2intermediate[s2]

====
